---------------------------- MODULE Spec2Model ----------------------------
(***************************************************************************)
(* A model of study_tracker_v2/app.py: the reconciliation functions        *)
(* (week_index, cumulative_planned, cumulative_actual), the three CSV      *)
(* ledgers with their load/save round trips and the button handlers that   *)
(* write them, and the cached feed fetch.                                  *)
(*                                                                         *)
(* Representation.                                                         *)
(*   dt.date          its proleptic Gregorian ordinal (date.toordinal()).  *)
(*   "YYYY-MM-DD"     the triple <<y, m, d>> (the text is its zero-padded  *)
(*                    rendering, which is one-to-one).                     *)
(*   Python dict      a function whose domain is the set of keys.          *)
(*   DataFrame        a sequence of rows (records); a CSV file is either   *)
(*                    NoFile or the sequence of rows of text it holds.     *)
(***************************************************************************)
EXTENDS Integers, Sequences, FiniteSets

VARIABLES
    plan,             \* plan.yaml as loaded at line 136
    df,               \* the in-memory progress table handed to cumulative_actual
    ret,              \* the last call of a reconciliation function and its result
    progress_csv,     \* progress.csv
    milestones_csv,   \* milestones.csv
    reflections_csv,  \* reflections.csv
    today,            \* dt.date.today() (line 143), the default of the date input
    last,             \* the last script run: the button pressed and how it ended
    cache,            \* st.cache_data's store for fetch_rss
    clock,            \* seconds, for the cache's time to live
    feed_ret          \* the last call of fetch_rss: key, result, network use

vars == <<plan, df, ret, progress_csv, milestones_csv, reflections_csv,
          today, last, cache, clock, feed_ret>>

-----------------------------------------------------------------------------
(* Python values *)

EmptyDict == [k \in {} |-> 0]

\* d[k] = v
DictSet(d, k, v) == [x \in (DOMAIN d) \cup {k} |-> IF x = k THEN v ELSE d[x]]

RECURSIVE SumOver(_, _)
\* sum(d[k] for k in keys)
SumOver(d, keys) ==
    IF keys = {} THEN 0
    ELSE LET k == CHOOSE x \in keys : TRUE
         IN  d[k] + SumOver(d, keys \ {k})

\* sum(d.values())
DictSum(d) == SumOver(d, DOMAIN d)

\* A YAML number is modelled in halves (3 is 1.5, 60 is 30); int() truncates
\* toward zero.
PyInt(h) == IF h >= 0 THEN h \div 2 ELSE -((-h) \div 2)

-----------------------------------------------------------------------------
(* datetime.date: ISO text <-> ordinal, as CPython computes them *)

IsLeap(y) == y % 4 = 0 /\ (y % 100 # 0 \/ y % 400 = 0)

DaysInMonth(y, m) ==
    IF m = 2 THEN (IF IsLeap(y) THEN 29 ELSE 28)
    ELSE IF m \in {4, 6, 9, 11} THEN 30 ELSE 31

RECURSIVE DaysBeforeMonth(_, _)
DaysBeforeMonth(y, m) ==
    IF m = 1 THEN 0 ELSE DaysBeforeMonth(y, m - 1) + DaysInMonth(y, m - 1)

DaysBeforeYear(y) ==
    LET p == y - 1 IN p * 365 + (p \div 4) - (p \div 100) + (p \div 400)

\* dt.date.fromisoformat(text): the date's ordinal
fromisoformat(iso) ==
    DaysBeforeYear(iso[1]) + DaysBeforeMonth(iso[1], iso[2]) + iso[3]

RECURSIVE MonthOf(_, _, _)
\* the month and day of the n-th day (from 1) of year y, searching from month m
MonthOf(y, m, n) ==
    IF n <= DaysInMonth(y, m) THEN <<y, m, n>>
    ELSE MonthOf(y, m + 1, n - DaysInMonth(y, m))

RECURSIVE YearOf(_, _)
YearOf(y, ord) ==
    IF ord > DaysBeforeYear(y + 1) THEN YearOf(y + 1, ord)
    ELSE MonthOf(y, 1, ord - DaysBeforeYear(y))

\* str(date), date.isoformat(): the text of an ordinal
isoformat(ord) == YearOf((ord \div 366) + 1, ord)

-----------------------------------------------------------------------------
(* Bounds and input sets *)

\* dates run from FirstDay to MaxDay days later
MaxDay == 15
\* the in-memory progress table given to cumulative_actual has at most
\* MaxEntries rows, dated within MaxEntryDay days of FirstDay
MaxEntries == 2
MaxEntryDay == 2
\* the ledgers are written while they hold fewer rows than these
MaxRows == 3
MaxReflections == 3
MaxSessionRows == 1
\* fetch_rss is called at most MaxFetches times, within MaxHalfHours half hours
MaxFetches == 3
MaxHalfHours == 3
\* cumulative_planned is applied to ranges within MaxRangeDay days of FirstDay
MaxRangeDay == 3

\* 2024-02-19, so that the range crosses 29 February
FirstDay == fromisoformat(<<2024, 2, 19>>)
Dates == FirstDay .. (FirstDay + MaxDay)
EntryDates == FirstDay .. (FirstDay + MaxEntryDay)
RangeDates == FirstDay .. (FirstDay + MaxRangeDay)

\* "total" is a legal module name in plan.yaml
ModuleNames == {"stats", "algo", "total"}
\* planned_minutes_per_day as written in plan.yaml, in halves: 0, 1.5, 30
RawMinutes == {0, 3, 60}
StartDates == {isoformat(FirstDay), isoformat(FirstDay + 1)}

Plans ==
    { [meta |-> [start_date |-> s, modules |-> ms]] :
        s \in StartDates,
        ms \in UNION { [M -> [planned_minutes_per_day : RawMinutes]] :
                         M \in (SUBSET ModuleNames) \ {{}} } }

\* the plan of the session specifications
SessionPlan ==
    [meta |-> [start_date |-> isoformat(FirstDay),
               modules |-> [m \in {"stats", "algo", "total"} |->
                   [planned_minutes_per_day |->
                       IF m = "stats" THEN 60 ELSE IF m = "algo" THEN 3 ELSE 0]]]]

-----------------------------------------------------------------------------
(* Reconciliation engine, lines 58-83 *)

planned_minutes_per_day(p) ==
    LET modules == p.meta.modules
    IN  [m \in DOMAIN modules |-> PyInt(modules[m].planned_minutes_per_day)]

\* a slip: the day count leaves out the last day
cumulative_planned_exclusive(pl, start_date, end_date) ==
    LET p      == planned_minutes_per_day(pl)
        days   == end_date - start_date
        totals == [m \in DOMAIN p |-> p[m] * days]
    IN  DictSet(totals, "total", DictSum(totals))

cumulative_planned(pl, start_date, end_date) ==
    LET p      == planned_minutes_per_day(pl)
        days   == (end_date - start_date) + 1
        totals == [m \in DOMAIN p |-> p[m] * days]
    IN  DictSet(totals, "total", DictSum(totals))

RECURSIVE SumMinutes(_)
\* sub["minutes"].sum()
SumMinutes(rows) ==
    IF rows = <<>> THEN 0 ELSE Head(rows).minutes + SumMinutes(Tail(rows))

\* sub.groupby("module")["minutes"].sum().to_dict()
GroupSum(rows) ==
    [m \in {rows[i].module : i \in DOMAIN rows} |->
        SumMinutes(SelectSeq(rows, LAMBDA r : r.module = m))]

\* a slip: the range leaves out end_date
cumulative_actual_exclusive(d, start_date, end_date) ==
    IF Len(d) = 0 THEN DictSet(EmptyDict, "total", 0)
    ELSE LET sub    == SelectSeq(d, LAMBDA r : r.date >= start_date /\ r.date < end_date)
             totals == GroupSum(sub)
         IN  DictSet(totals, "total", IF Len(sub) # 0 THEN SumMinutes(sub) ELSE 0)

cumulative_actual(d, start_date, end_date) ==
    IF Len(d) = 0 THEN DictSet(EmptyDict, "total", 0)
    ELSE LET sub    == SelectSeq(d, LAMBDA r : r.date >= start_date /\ r.date <= end_date)
             totals == GroupSum(sub)
         IN  DictSet(totals, "total", IF Len(sub) # 0 THEN SumMinutes(sub) ELSE 0)

\* a slip: the week is counted from 0
week_index_zero_based(pl, t) ==
    LET start      == fromisoformat(pl.meta.start_date)
        delta_days == t - start
    IN  IF delta_days < 0 THEN 0 ELSE delta_days \div 7

week_index(pl, t) ==
    LET start      == fromisoformat(pl.meta.start_date)
        delta_days == t - start
    IN  IF delta_days < 0 THEN 0 ELSE (delta_days \div 7) + 1

-----------------------------------------------------------------------------
(* State outside the part a specification exercises *)

NoCall == [fn |-> "none", a |-> 0, b |-> 0, val |-> 0, map |-> EmptyDict]
NoFile == [exists |-> FALSE, rows |-> <<>>]
File(rows) == [exists |-> TRUE, rows |-> rows]
NoInstant == [date |-> 0, sec |-> 0]
NoRun == [button |-> "none", raised |-> FALSE, now |-> NoInstant, note |-> ""]
None == [none |-> TRUE, text |-> ""]
NoFetch == [n |-> 0, key |-> <<"", 0, 0>>, items |-> <<>>, err |-> None,
            network |-> FALSE, warned |-> FALSE, outcome |-> "none"]

ReconIdle ==
    /\ df = <<>>
    /\ ret = NoCall
SessionIdle ==
    /\ progress_csv = NoFile
    /\ milestones_csv = NoFile
    /\ reflections_csv = NoFile
    /\ today = FirstDay
    /\ last = NoRun
FeedIdle ==
    /\ cache = EmptyDict
    /\ clock = 0
    /\ feed_ret = NoFetch

sessionVars == <<progress_csv, milestones_csv, reflections_csv, today, last>>
feedVars == <<cache, clock, feed_ret>>
\* what a button handler of the page never touches
otherVars == <<plan, df, ret, cache, clock, feed_ret>>

-----------------------------------------------------------------------------
(* The reconciliation functions applied to bounded inputs *)

EntryMinutes == {5, 10}
Entries == [date : EntryDates, module : ModuleNames, minutes : EntryMinutes]
DataFrames == UNION { [1..n -> Entries] : n \in 0..MaxEntries }

CallWeekIndex ==
    /\ \E t \in Dates :
          ret' = [fn |-> "week_index", a |-> t, b |-> t,
                  val |-> week_index(plan, t), map |-> EmptyDict]
    /\ UNCHANGED <<plan, df, sessionVars, feedVars>>

CallCumulativePlanned ==
    /\ \E s \in RangeDates, e \in RangeDates :
          ret' = [fn |-> "cumulative_planned", a |-> s, b |-> e, val |-> 0,
                  map |-> cumulative_planned(plan, s, e)]
    /\ UNCHANGED <<plan, df, sessionVars, feedVars>>

CallCumulativeActual ==
    /\ \E s \in EntryDates, e \in EntryDates :
          ret' = [fn |-> "cumulative_actual", a |-> s, b |-> e, val |-> 0,
                  map |-> cumulative_actual(df, s, e)]
    /\ UNCHANGED <<plan, df, sessionVars, feedVars>>

InitPlan ==
    /\ plan \in Plans
    /\ ReconIdle /\ SessionIdle /\ FeedIdle
NextPlan == CallWeekIndex \/ CallCumulativePlanned
SpecPlan == InitPlan /\ [][NextPlan]_vars

InitActual ==
    /\ plan = SessionPlan
    /\ df \in DataFrames
    /\ ret = NoCall
    /\ SessionIdle /\ FeedIdle
NextActual == CallCumulativeActual
SpecActual == InitActual /\ [][NextActual]_vars

-----------------------------------------------------------------------------
(* Claims on the reconciliation functions *)

\* the value of one call, d being the days from the plan's start date to t
C1_WeekIndexValue ==
    ret.fn = "week_index" =>
        LET d == ret.a - fromisoformat(plan.meta.start_date)
        IN  /\ d < 0 => ret.val = 0
            /\ d >= 0 => /\ ret.val >= 1
                         /\ 7 * (ret.val - 1) <= d
                         /\ d <= 7 * (ret.val - 1) + 6
            /\ d \in 0..6 => ret.val = 1
            /\ d \in 7..13 => ret.val = 2
\* two calls in a row, the second with a later t
C1_WeekIndexStep ==
    (ret.fn = "week_index" /\ ret'.fn = "week_index" /\ ret'.a >= ret.a)
        => ret'.val >= ret.val
\* C1: week_index(plan, t) is 0 when t is before the plan's start date s and
\* otherwise the w with 7(w-1) <= d <= 7(w-1)+6, d the days from s to t (1 for
\* d in 0..6, 2 for d in 7..13); and a later t never gives a smaller index.
C1_WeekIndex == [](C1_WeekIndexValue) /\ [][C1_WeekIndexStep]_vars
\* C1 witness: week_index called 14 days after the start date gives 3

C1_Witness ==
    /\ ret.fn = "week_index"
    /\ ret.a - fromisoformat(plan.meta.start_date) = 14
    /\ ret.val = 3

RECURSIVE SumAt(_, _)
\* the minutes of the rows of d at the positions I, added up
SumAt(d, I) ==
    IF I = {} THEN 0
    ELSE LET i == CHOOSE x \in I : TRUE IN d[i].minutes + SumAt(d, I \ {i})
\* the positions of the rows of module m (of any module) dated in [s, e]
InRangeOf(d, s, e, m) ==
    {i \in DOMAIN d : d[i].module = m /\ s <= d[i].date /\ d[i].date <= e}
InRange(d, s, e) == {i \in DOMAIN d : s <= d[i].date /\ d[i].date <= e}

\* C2 as stated: every module with an entry in the range, one named "total"
\* included, is a key holding the sum of its in-range minutes; no other
\* module is a key; "total" holds the sum of all in-range minutes.
C2_AsStated ==
    ret.fn = "cumulative_actual" =>
        /\ \A m \in ModuleNames :
              IF InRangeOf(df, ret.a, ret.b, m) # {}
              THEN /\ m \in DOMAIN ret.map
                   /\ ret.map[m] = SumAt(df, InRangeOf(df, ret.a, ret.b, m))
              ELSE m \in DOMAIN ret.map => m = "total"
        /\ ret.map["total"] = SumAt(df, InRange(df, ret.a, ret.b))

\* C2 amended: the same for every module not named "total"; the key "total"
\* always holds the sum of all in-range minutes; with no entry in range the
\* result is exactly {"total": 0}.
C2_CumulativeActual ==
    ret.fn = "cumulative_actual" =>
        /\ \A m \in ModuleNames \ {"total"} :
              IF InRangeOf(df, ret.a, ret.b, m) # {}
              THEN /\ m \in DOMAIN ret.map
                   /\ ret.map[m] = SumAt(df, InRangeOf(df, ret.a, ret.b, m))
              ELSE m \notin DOMAIN ret.map
        /\ DOMAIN ret.map \subseteq ModuleNames
        /\ ret.map["total"] = SumAt(df, InRange(df, ret.a, ret.b))
        /\ InRange(df, ret.a, ret.b) = {} => ret.map = DictSet(EmptyDict, "total", 0)
\* C2 witness: two entries of one module on the last day of a two-day range
\* add up
C2_Witness ==
    /\ ret.fn = "cumulative_actual"
    /\ Len(df) = 2
    /\ df[1].module = "stats" /\ df[2].module = "stats"
    /\ df[1].date = df[2].date
    /\ ret.a < ret.b /\ df[1].date = ret.b
    /\ ret.map["stats"] = 15

\* C3 as stated: every module of the plan, one named "total" included, maps
\* to its planned minutes per day times N = (end - start).days + 1, and
\* "total" maps to the sum of these products.
C3_AsStated ==
    ret.fn = "cumulative_planned" =>
        LET p == planned_minutes_per_day(plan)
            N == (ret.b - ret.a) + 1
        IN  /\ \A m \in DOMAIN plan.meta.modules : ret.map[m] = p[m] * N
            /\ ret.map["total"] = SumOver([m \in DOMAIN p |-> p[m] * N], DOMAIN p)

\* C3 amended: every module of the plan not named "total" maps to its planned
\* minutes per day times N; "total" maps to the sum of the products over all
\* modules of the plan; there is no other key.
C3_CumulativePlanned ==
    ret.fn = "cumulative_planned" =>
        LET p == planned_minutes_per_day(plan)
            N == (ret.b - ret.a) + 1
        IN  /\ \A m \in (DOMAIN plan.meta.modules) \ {"total"} : ret.map[m] = p[m] * N
            /\ ret.map["total"] = SumOver([m \in DOMAIN p |-> p[m] * N], DOMAIN p)
            /\ DOMAIN ret.map = (DOMAIN plan.meta.modules) \cup {"total"}
            /\ N = 1 => \A m \in (DOMAIN p) \ {"total"} : ret.map[m] = p[m]
\* C3 witness: a three-day range over the modules stats (30 a day) and algo
\* (1 a day)
C3_Witness ==
    /\ ret.fn = "cumulative_planned"
    /\ ret.b - ret.a = 2
    /\ DOMAIN plan.meta.modules = {"stats", "algo"}
    /\ ret.map["stats"] = 90 /\ ret.map["algo"] = 3 /\ ret.map["total"] = 93

-----------------------------------------------------------------------------
(* pandas: read_csv and to_csv on a column of free text                    *)
(*                                                                         *)
(* read_csv (defaults: keep_default_na, no dtype) turns a cell whose text  *)
(* is one of its NA markers into NaN and infers the column's type from the *)
(* remaining cells: int64 when all are integers and none is NA, float64    *)
(* when all are numbers, object (text) otherwise.  to_csv writes NaN as    *)
(* the empty text and a number in its canonical form.  An in-memory cell   *)
(* is [kind, text], text being what to_csv writes for it.                  *)
(***************************************************************************)

\* the NA markers among the texts of the model ("" and "n/a" are two of
\* read_csv's default na_values)
NAStrings == {"", "n/a"}
\* texts read_csv parses as the integer 7, as the float 7.0
IntTexts == {"7", "007"}
FloatTexts == {"7.0"}

NaN == [kind |-> "nan", text |-> ""]
Str(s) == [kind |-> "str", text |-> s]

\* pd.read_csv on one free-text column: the cells of the DataFrame
ReadTextColumn(cells) ==
    LET present == {i \in DOMAIN cells : cells[i] \notin NAStrings}
        allInt  == \A i \in present : cells[i] \in IntTexts
        allNum  == \A i \in present : cells[i] \in IntTexts \cup FloatTexts
        hasNA   == present # DOMAIN cells
    IN  [i \in DOMAIN cells |->
            IF i \notin present THEN NaN
            ELSE IF allInt /\ ~hasNA THEN [kind |-> "int", text |-> "7"]
            ELSE IF allNum THEN [kind |-> "float", text |-> "7.0"]
            ELSE Str(cells[i])]

\* DataFrame.to_csv on one cell (na_rep = "")
WriteCell(c) == IF c.kind = "nan" THEN "" ELSE c.text

\* str.strip() on the texts of the model
Strip(s) == IF s = " ok " THEN "ok" ELSE IF s = " " THEN "" ELSE s

-----------------------------------------------------------------------------
(* Progress ledger, lines 24-36 *)

load_progress ==
    IF progress_csv.exists
    THEN LET rows == progress_csv.rows
             note == ReadTextColumn([i \in DOMAIN rows |-> rows[i].note])
         IN  \* line 29: pd.to_datetime(df["date"]).dt.date (no row: nothing to do)
             [i \in DOMAIN rows |->
                 [date |-> fromisoformat(rows[i].date), module |-> rows[i].module,
                  minutes |-> rows[i].minutes, note |-> note[i]]]
    ELSE <<>>

\* what save_progress(d) leaves in progress.csv
save_progress(d) ==
    File([i \in DOMAIN d |->
            [date |-> isoformat(d[i].date), module |-> d[i].module,
             minutes |-> d[i].minutes, note |-> WriteCell(d[i].note)]])

-----------------------------------------------------------------------------
(* Milestone ledger, lines 38-44 *)

load_milestones ==
    IF milestones_csv.exists
    THEN LET rows == milestones_csv.rows
             note == ReadTextColumn([i \in DOMAIN rows |-> rows[i].note])
         IN  [i \in DOMAIN rows |->
                 [week |-> rows[i].week, done_date |-> rows[i].done_date,
                  note |-> note[i]]]
    ELSE <<>>

save_milestones(d) ==
    File([i \in DOMAIN d |->
            [week |-> d[i].week, done_date |-> d[i].done_date,
             note |-> WriteCell(d[i].note)]])

-----------------------------------------------------------------------------
(* Reflection ledger, lines 46-56                                          *)
(*                                                                         *)
(* The text of a timestamp is [at, sep]: the instant it names and the      *)
(* separator between its date and its time, "T" as datetime.isoformat      *)
(* writes it, " " as str(pd.Timestamp) writes it, "" for the empty text.   *)
(***************************************************************************)

NaT == [kind |-> "NaT", at |-> NoInstant]

\* pd.to_datetime(column, errors="coerce").  pandas 2 guesses one format
\* from the first non-empty text and turns every text that does not match it
\* into NaT (strict); pandas 1 parses each text on its own.
to_datetime(texts, strict) ==
    LET present == {i \in DOMAIN texts : texts[i].sep # ""}
        first   == CHOOSE i \in present : \A j \in present : i <= j
    IN  [i \in DOMAIN texts |->
            IF i \notin present THEN NaT
            ELSE IF strict /\ texts[i].sep # texts[first].sep THEN NaT
            ELSE [kind |-> "Timestamp", at |-> texts[i].at]]

\* to_csv on a cell of the timestamp column
WriteTimestamp(c) ==
    IF c.kind = "NaT" THEN [at |-> NoInstant, sep |-> ""]
    ELSE IF c.kind = "Timestamp" THEN [at |-> c.at, sep |-> " "]
    ELSE [at |-> c.at, sep |-> "T"]

load_reflections(strict) ==
    IF reflections_csv.exists
    THEN LET rows == reflections_csv.rows
             text == ReadTextColumn([i \in DOMAIN rows |-> rows[i].text])
             tags == ReadTextColumn([i \in DOMAIN rows |-> rows[i].tags])
             ts   == to_datetime([i \in DOMAIN rows |-> rows[i].timestamp], strict)
         IN  [i \in DOMAIN rows |->
                 [timestamp |-> ts[i], date |-> rows[i].date, topic |-> rows[i].topic,
                  mood |-> rows[i].mood, text |-> text[i], tags |-> tags[i]]]
    ELSE <<>>

save_reflections(d) ==
    File([i \in DOMAIN d |->
            [timestamp |-> WriteTimestamp(d[i].timestamp), date |-> d[i].date,
             topic |-> d[i].topic, mood |-> d[i].mood,
             text |-> WriteCell(d[i].text), tags |-> WriteCell(d[i].tags)]])

-----------------------------------------------------------------------------
(* The script run, lines 135-303 *)

\* line 301: REFLECTIONS_PATH.read_bytes() raises FileNotFoundError when
\* reflections.csv does not exist; nothing else in a run depends on the
\* ledger files being there
RunRaises(reflections) == ~reflections.exists

\* a run with no button pressed
Render ==
    /\ last' = [button |-> "no button", raised |-> RunRaises(reflections_csv),
                now |-> NoInstant, note |-> ""]
    /\ UNCHANGED <<progress_csv, milestones_csv, reflections_csv, today, otherVars>>

\* lines 163-168; st.rerun() then runs the script again
AddLog(log_date, module, minutes, note) ==
    LET new == [date |-> log_date, module |-> module, minutes |-> minutes,
                note |-> Str(note)]
        df2 == load_progress \o <<new>>
    IN  /\ progress_csv' = save_progress(df2)
        /\ last' = [button |-> "Add log", raised |-> RunRaises(reflections_csv),
                    now |-> NoInstant, note |-> note]
        /\ UNCHANGED <<milestones_csv, reflections_csv, today, otherVars>>

\* the modules in the order plan.yaml lists them (the order of p.items())
ModuleOrder == <<"stats", "algo", "total">>

\* lines 170-176
QuickAdd(log_date) ==
    LET p    == planned_minutes_per_day(plan)
        mods == SelectSeq(ModuleOrder, LAMBDA m : m \in DOMAIN p /\ p[m] > 0)
        rows == [i \in DOMAIN mods |->
                    [date |-> log_date, module |-> mods[i], minutes |-> p[mods[i]],
                     note |-> Str("planned")]]
        df2  == load_progress \o rows
    IN  /\ progress_csv' = save_progress(df2)
        /\ last' = [button |-> "Quick add", raised |-> RunRaises(reflections_csv),
                    now |-> NoInstant, note |-> "planned"]
        /\ UNCHANGED <<milestones_csv, reflections_csv, today, otherVars>>

\* a slip: unchecking removes the week's row
save_deliv_unmark(done, current_week, log_date, done_note) ==
    LET ms  == load_milestones
        ms2 == SelectSeq(ms, LAMBDA r : r.week # current_week)
    IN  IF done
        THEN save_milestones(ms2 \o <<[week |-> current_week,
                 done_date |-> isoformat(log_date), note |-> Str(done_note)]>>)
        ELSE IF milestones_csv.exists THEN save_milestones(ms2) ELSE milestones_csv

\* lines 183-191: milestones.csv after "Save deliverable status"
save_deliv(done, current_week, log_date, done_note) ==
    LET ms  == load_milestones
        ms2 == SelectSeq(ms, LAMBDA r : r.week # current_week)
    IN  IF done
        THEN save_milestones(ms2 \o <<[week |-> current_week,
                 done_date |-> isoformat(log_date), note |-> Str(done_note)]>>)
        ELSE milestones_csv

\* lines 181-191; the run goes on to the end of the script
SaveDeliv(done, log_date, done_note) ==
    /\ milestones_csv' = save_deliv(done, week_index(plan, today), log_date, done_note)
    /\ last' = [button |-> IF done THEN "save_deliv checked" ELSE "save_deliv unchecked",
                raised |-> RunRaises(reflections_csv), now |-> NoInstant,
                note |-> done_note]
    /\ UNCHANGED <<progress_csv, reflections_csv, today, otherVars>>

\* lines 286-292; st.rerun() then runs the script again
SaveReflection(sec, strict, topic, mood, text, tags) ==
    LET now == [date |-> today, sec |-> sec]
        new == [timestamp |-> [kind |-> "str", at |-> now], date |-> isoformat(today),
                topic |-> topic, mood |-> mood,
                text |-> Str(Strip(text)), tags |-> Str(Strip(tags))]
        rf2 == load_reflections(strict) \o <<new>>
    IN  /\ reflections_csv' = save_reflections(rf2)
        /\ last' = [button |-> "Save reflection",
                    raised |-> RunRaises(reflections_csv'), now |-> now,
                    note |-> Strip(text)]
        /\ UNCHANGED <<progress_csv, milestones_csv, today, otherVars>>

-----------------------------------------------------------------------------
(* Sessions *)

\* what is typed into a free-text input
NoteInputs == {"", "ok", "n/a", "007"}
TextInputs == {" ok ", "n/a", ""}
TagInputs == {"", "007"}

InitSession ==
    /\ plan = SessionPlan
    /\ ReconIdle /\ FeedIdle
    /\ progress_csv = NoFile
    /\ milestones_csv = NoFile
    /\ reflections_csv = NoFile
    /\ today = FirstDay
    /\ last = NoRun

\* a week goes by between two runs
NextWeek ==
    /\ today + 7 <= FirstDay + MaxDay
    /\ today' = today + 7
    /\ UNCHANGED <<progress_csv, milestones_csv, reflections_csv, last, otherVars>>

\* the buttons, with the inputs a specification gives them
PressSaveDeliv == \E done \in BOOLEAN, note \in NoteInputs : SaveDeliv(done, today, note)
PressAddLogOnce ==
    /\ Len(progress_csv.rows) < MaxSessionRows
    /\ AddLog(today, "stats", 30, "")
PressSaveReflectionOnce ==
    /\ Len(reflections_csv.rows) < MaxSessionRows
    /\ \E strict \in BOOLEAN : SaveReflection(0, strict, "paper", "ok", " ok ", "")
PressAddLog ==
    /\ Len(progress_csv.rows) < MaxRows
    /\ \E log_date \in {today, today + 1}, module \in {"stats", "algo"},
          note \in NoteInputs : AddLog(log_date, module, 5, note)
PressQuickAdd ==
    /\ Len(progress_csv.rows) < MaxRows
    /\ QuickAdd(today)
PressSaveReflection ==
    /\ Len(reflections_csv.rows) < MaxReflections
    /\ \E sec \in {0, 1}, strict \in BOOLEAN, text \in TextInputs, tags \in TagInputs :
          SaveReflection(sec, strict, "paper", "ok", text, tags)

\* the whole page, the milestone inputs varied
Next ==
    \/ Render
    \/ NextWeek
    \/ PressSaveDeliv
    \/ PressAddLogOnce
    \/ PressSaveReflectionOnce
Spec == InitSession /\ [][Next]_vars

\* the log form, its inputs varied
NextProgress ==
    \/ Render
    \/ PressAddLog
    \/ PressQuickAdd
SpecProgress == InitSession /\ [][NextProgress]_vars

\* the reflection form, its inputs varied
NextReflections ==
    \/ Render
    \/ NextWeek
    \/ PressSaveReflection
SpecReflections == InitSession /\ [][NextReflections]_vars

-----------------------------------------------------------------------------
(* Claims on the ledgers *)

WeeksOf(file) == {file.rows[i].week : i \in DOMAIN file.rows}
OtherWeeks(file, w) == SelectSeq(file.rows, LAMBDA r : r.week # w)

\* one checked "Save deliverable status"
C4_UpsertStep ==
    (last'.button = "save_deliv checked" /\ milestones_csv' # milestones_csv) =>
        LET w == week_index(plan, today)
        IN  /\ Cardinality({i \in DOMAIN milestones_csv'.rows :
                                milestones_csv'.rows[i].week = w}) = 1
            /\ \A i \in DOMAIN milestones_csv'.rows :
                  milestones_csv'.rows[i].week = w =>
                      /\ milestones_csv'.rows[i].done_date = isoformat(today)
                      /\ milestones_csv'.rows[i].note = last'.note
            /\ OtherWeeks(milestones_csv', w) = OtherWeeks(milestones_csv, w)
\* C4: every checked "Save deliverable status" leaves exactly one row for
\* the current week, holding the done_date and the note just entered, and
\* keeps the rows of all other weeks unchanged and in their order.
C4_AsStated == [][C4_UpsertStep]_vars

\* two rows of progress.csv hold the same entry
SameEntry(r, q) ==
    /\ fromisoformat(r.date) = fromisoformat(q.date)
    /\ r.module = q.module
    /\ r.minutes = q.minutes
    /\ r.note = q.note
C5_AppendStep ==
    (last'.button \in {"Add log", "Quick add"} /\ progress_csv' # progress_csv) =>
        /\ Len(progress_csv'.rows) >= Len(progress_csv.rows)
        /\ \A i \in DOMAIN progress_csv.rows :
              SameEntry(progress_csv'.rows[i], progress_csv.rows[i])
        /\ \A i \in (DOMAIN progress_csv'.rows) \ (DOMAIN progress_csv.rows) :
              progress_csv'.rows[i].note = last'.note
\* C5: "Add log" and "Quick add" leave in progress.csv the rows that were
\* there, in their order, with the same module, minutes, note and calendar
\* date, followed by the rows just logged.
C5_AsStated == [][C5_AppendStep]_vars

\* one "Save reflection"
C6_AppendStep ==
    (last'.button = "Save reflection" /\ reflections_csv' # reflections_csv) =>
        /\ Len(reflections_csv'.rows) = Len(reflections_csv.rows) + 1
        /\ \A i \in DOMAIN reflections_csv.rows :
              reflections_csv'.rows[i] = reflections_csv.rows[i]
        /\ reflections_csv'.rows[Len(reflections_csv'.rows)].timestamp.at = last'.now
\* C6: "Save reflection" leaves every row of reflections.csv where it was,
\* every field the same text as before, the timestamp included, and adds one
\* row at the end whose timestamp is the instant of saving.
C6_AsStated == [][C6_AppendStep]_vars

\* C7: no run of the script raises, whichever of the three ledger files is
\* missing.
C7_AsStated == ~last.raised

\* one step of the session
C10_UncheckedStep ==
    /\ last'.button = "save_deliv unchecked" =>
          UNCHANGED <<milestones_csv, progress_csv, reflections_csv>>
    /\ WeeksOf(milestones_csv) \subseteq WeeksOf(milestones_csv')
    /\ milestones_csv.exists => milestones_csv'.exists
\* C10: an unchecked "Save deliverable status" changes none of the three
\* files, and no step takes the row of a week out of milestones.csv.
C10_NoUnmark == [][C10_UncheckedStep]_vars
\* C10 witness: the box is unchecked and the button pressed while the current
\* week has its row and all three tables hold rows
C10_Witness ==
    /\ last.button = "save_deliv unchecked"
    /\ week_index(plan, today) \in WeeksOf(milestones_csv)
    /\ Len(milestones_csv.rows) = 2
    /\ Len(progress_csv.rows) = 1
    /\ Len(reflections_csv.rows) = 1

-----------------------------------------------------------------------------
(* Feed reader, lines 85-100 and 250-275 *)

\* @st.cache_data(ttl=3600)
TTL == 3600
HalfHour == 30 * 60

\* the document behind every feed URL of the model; a field an entry lacks
\* is "" here, as getattr(e, name, "") makes it
FeedEntries ==
    << [title |-> " ok ", link |-> "l1", published |-> "p1", updated |-> ""],
       [title |-> "", link |-> "l2", published |-> "", updated |-> "u2"],
       [title |-> "ok", link |-> "", published |-> "", updated |-> ""] >>

\* what the network and the server do with one request
Outcomes == {"feed", "not_a_feed", "http_error", "timeout"}
ErrorText(outcome) ==
    IF outcome = "http_error" THEN "404 Client Error" ELSE "Read timed out"

\* seq[:n]
Prefix(seq, n) ==
    IF n >= 0 THEN SubSeq(seq, 1, IF n < Len(seq) THEN n ELSE Len(seq))
    ELSE SubSeq(seq, 1, IF Len(seq) + n > 0 THEN Len(seq) + n ELSE 0)

\* lines 87-100, the body of fetch_rss: (items, error).  feedparser.parse
\* does not raise on a document that is no feed: it returns no entries.
fetch_rss_body(outcome, max_items) ==
    IF outcome \in {"http_error", "timeout"}
    THEN [items |-> <<>>, err |-> [none |-> FALSE, text |-> ErrorText(outcome)]]
    ELSE LET entries == IF outcome = "feed" THEN FeedEntries ELSE <<>>
             cut     == Prefix(entries, max_items)
         IN  [items |-> [i \in DOMAIN cut |->
                            [title |-> Strip(cut[i].title), link |-> Strip(cut[i].link),
                             published |-> IF cut[i].published # ""
                                           THEN cut[i].published ELSE cut[i].updated]],
              err |-> None]

\* a slip: the entry expires after half an hour
CacheHit_half_hour(key) ==
    /\ key \in DOMAIN cache
    /\ clock - cache[key].at < HalfHour

\* st.cache_data: the entry of these arguments is there and younger than ttl
CacheHit(key) ==
    /\ key \in DOMAIN cache
    /\ clock - cache[key].at < TTL

\* line 265: if err
Truthy(err) == ~err.none /\ err.text # ""

\* line 264, one call of the cached fetch_rss and the branch that shows it
FetchFeed(url, max_items, timeout, outcome) ==
    LET key   == <<url, max_items, timeout>>
        fresh == fetch_rss_body(outcome, max_items)
        got   == IF CacheHit(key) THEN cache[key]
                 ELSE [items |-> fresh.items, err |-> fresh.err, at |-> clock,
                       outcome |-> outcome]
    IN  /\ feed_ret.n < MaxFetches
        /\ cache' = DictSet(cache, key, got)
        /\ feed_ret' = [n |-> feed_ret.n + 1, key |-> key, items |-> got.items,
                        err |-> got.err, network |-> ~CacheHit(key),
                        warned |-> Truthy(got.err), outcome |-> got.outcome]
        /\ UNCHANGED <<clock, plan, df, ret, sessionVars>>

Tick ==
    /\ clock + HalfHour <= MaxHalfHours * HalfHour
    /\ clock' = clock + HalfHour
    /\ UNCHANGED <<cache, feed_ret, plan, df, ret, sessionVars>>

\* feeds.yaml is read on every run: max_items_per_feed can differ between runs
FeedUrls == {"u1", "u2"}
MaxItemsValues == {1, 2}

Fetch == \E url \in FeedUrls, max_items \in MaxItemsValues, outcome \in Outcomes :
            FetchFeed(url, max_items, 8, outcome)

InitFeed ==
    /\ plan = SessionPlan
    /\ ReconIdle /\ SessionIdle /\ FeedIdle
NextFeed == Fetch \/ Tick
SpecFeed == InitFeed /\ [][NextFeed]_vars

-----------------------------------------------------------------------------
(* Claims on the feed reader *)

\* C8: every failed fetch (network, HTTP status, timeout, parse) returns no
\* item and a non-empty error text and is shown as a warning; every
\* successful fetch returns at most max_items items, in feed order, and no
\* error.
C8_AsStated ==
    feed_ret.n > 0 =>
        IF feed_ret.outcome = "feed"
        THEN /\ feed_ret.err = None
             /\ Len(feed_ret.items) <= feed_ret.key[2]
             /\ \A i \in DOMAIN feed_ret.items :
                   feed_ret.items[i].link = FeedEntries[i].link
        ELSE /\ feed_ret.items = <<>>
             /\ ~feed_ret.err.none /\ feed_ret.err.text # ""
             /\ feed_ret.warned

\* one call of fetch_rss, the cache looked up by URL alone
C9_UrlStep ==
    feed_ret'.n = feed_ret.n + 1 =>
        \A k \in DOMAIN cache :
            (k[1] = feed_ret'.key[1] /\ clock - cache[k].at < TTL) =>
                /\ ~feed_ret'.network
                /\ feed_ret'.items = cache[k].items
                /\ feed_ret'.err = cache[k].err
\* C9 as stated: once a fetch of a URL has returned, a later fetch of the
\* same URL within the hour makes no network request and returns that result.
C9_AsStated == [][C9_UrlStep]_vars

\* one step, the cache looked up by all three arguments
C9_KeyStep ==
    /\ feed_ret'.n = feed_ret.n + 1 =>
          LET k == feed_ret'.key
          IN  IF k \in DOMAIN cache /\ clock - cache[k].at < TTL
              THEN /\ ~feed_ret'.network
                   /\ feed_ret'.items = cache[k].items
                   /\ feed_ret'.err = cache[k].err
              ELSE feed_ret'.network
    /\ \A k \in DOMAIN cache :
          /\ k \in DOMAIN cache'
          /\ cache'[k] # cache[k] => clock - cache[k].at >= TTL
\* C9 amended: the cache is keyed by the arguments (url, max_items, timeout):
\* once a fetch with some arguments has returned, a later fetch with the same
\* arguments within the hour makes no network request and returns that
\* result, a prior error included; an entry is replaced only once its hour is
\* over, and a fetch outside the hour goes to the network.
C9_CachedByArguments == [][C9_KeyStep]_vars
\* C9 witness: a cached error is returned half an hour later without a
\* network request, while another key is cached too
C9_Witness ==
    /\ feed_ret.n >= 2
    /\ ~feed_ret.network
    /\ ~feed_ret.err.none
    /\ clock - cache[feed_ret.key].at = HalfHour
    /\ Cardinality(DOMAIN cache) = 2

=============================================================================
